---- MODULE Spec2Model ----
(***************************************************************************)
(* Model of the cached conversation agent (agent.py, __init__.py): the     *)
(* in-memory answer cache of LLMCachedAgent, its two variant files and the *)
(* backup file, the asyncio lock, and the coroutines that act on them      *)
(* (async_process, async_reload / async_prepare, async_update_config).     *)
(*                                                                         *)
(* Granularity.  Coroutine code between two awaits runs atomically on the  *)
(* event loop and is one action.  Jobs handed to the executor run in a     *)
(* worker thread next to the event loop: _load_cache is two steps (it      *)
(* reads the path and the file, later it assigns self._cache); _save_cache *)
(* and _merge_cache_files are one step each, because every save and merge  *)
(* runs under _io_lock and in-place mutations of the cache happen under    *)
(* that lock too, so nothing they read or write changes while they run     *)
(* except by a step that can equally be ordered before or after them.      *)
(***************************************************************************)
EXTENDS Integers, Sequences, FiniteSets, TLC

\* ------------------------------------------------------------------ bounds

\* Number of calls (async_process, async_reload, async_update_config) made
\* to one engine over one behaviour.
MaxOps == 4
\* Number of engine constructions after the first one.
MaxRestarts == 1
\* Number of coroutines in flight at once.
MaxInFlight == 2
\* Number of calls over one behaviour of the specification with fairness.
MaxLiveOps == 3

\* ------------------------------------------------------------------ text

None == "None"

\* Query texts the callers send (sequences of characters).
Texts == { <<"H", "i", "!">>, <<" ", "h", "i", " ">>, <<" ">> }

IsSpace(ch) == ch \in {" ", "\t"}

IsAlnum(ch) == ch \in {"h", "i", "H", "I", "y", "o", "3"}

ToLower(ch) == CASE ch = "H" -> "h" [] ch = "I" -> "i" [] OTHER -> ch

LowerAll(t) == [i \in 1..Len(t) |-> ToLower(t[i])]

\* str.split(): the maximal runs of non-whitespace characters.
RECURSIVE SplitWords(_, _, _)
SplitWords(t, cur, acc) ==
    IF t = <<>> THEN (IF cur = <<>> THEN acc ELSE Append(acc, cur))
    ELSE IF IsSpace(Head(t))
         THEN SplitWords(Tail(t), <<>>, IF cur = <<>> THEN acc ELSE Append(acc, cur))
         ELSE SplitWords(Tail(t), Append(cur, Head(t)), acc)

\* " ".join(words)
RECURSIVE JoinWords(_)
JoinWords(ws) ==
    IF ws = <<>> THEN <<>>
    ELSE IF Len(ws) = 1 THEN ws[1]
    ELSE ws[1] \o <<" ">> \o JoinWords(Tail(ws))

\* normalize(text): " ".join(text.strip().lower().split())
normalize(t) == JoinWords(SplitWords(LowerAll(t), <<>>, <<>>))

\* _strip_punctuation(text): keeps alphanumerics and whitespace.
strip_punctuation(t) == SelectSeq(t, LAMBDA ch : IsAlnum(ch) \/ IsSpace(ch))

\* ------------------------------------------------------------------ records

\* CacheItem(q, q_norm, a, ts, aliases)
CacheItem(q, qn, a, ts, al) == [q |-> q, q_norm |-> qn, a |-> a, ts |-> ts, aliases |-> al]

\* The cache is a Python dict keyed by q_norm: insertion-ordered, one value
\* per key.  It is modelled as the sequence of its values in dict order.
Keys(c) == {c[i].q_norm : i \in DOMAIN c}

KeyIndex(c, k) == IF k \in Keys(c) THEN CHOOSE i \in DOMAIN c : c[i].q_norm = k ELSE 0

\* self._cache[k] = item: replaces the value in place, or appends a new key.
DictSetOverwrite(c, item) ==
    IF item.q_norm \in Keys(c)
    THEN [c EXCEPT ![KeyIndex(c, item.q_norm)] = item]
    ELSE Append(c, item)

DictSet(c, item) == DictSetOverwrite(c, item)

\* ci.aliases.append(qn) on the record stored under key k.
AppendAlias(c, k, qn) ==
    [c EXCEPT ![KeyIndex(c, k)].aliases = Append(@, qn)]

AliasSet(r) == {r.aliases[j] : j \in DOMAIN r.aliases}

\* One record matches the stripped query by its primary form or by an alias.
MatchesPrimary(r, cmp) == strip_punctuation(r.q_norm) = cmp
MatchesAlias(r, cmp) == \E j \in DOMAIN r.aliases : strip_punctuation(r.aliases[j]) = cmp

\* The scan of lines 361-374 without its breaks: the last matching record,
\* in dict order, is the one left in found.
FindFuzzyLast(c, cmp) ==
    LET hits == {i \in DOMAIN c : MatchesPrimary(c[i], cmp) \/ MatchesAlias(c[i], cmp)}
    IN IF hits = {} THEN 0 ELSE CHOOSE i \in hits : \A j \in hits : i >= j

\* The scan of async_process lines 361-374: first record, in dict order,
\* whose primary form or one of whose aliases matches.  0 when none does.
FindFuzzy(c, cmp) ==
    LET hits == {i \in DOMAIN c : MatchesPrimary(c[i], cmp) \/ MatchesAlias(c[i], cmp)}
    IN IF hits = {} THEN 0 ELSE CHOOSE i \in hits : \A j \in hits : i <= j

\* The scan of async_process lines 413-422.  It leaves the outer loop on
\* "if existing_key", which is false for the key "" (the empty string): an
\* alias match on the record keyed "" does not stop the scan, and a later
\* match replaces it.  Returns the index of the record chosen, 0 for none.
RECURSIVE ScanExisting(_, _, _, _)
ScanExisting(c, cmp, i, sofar) ==
    IF i > Len(c) THEN sofar
    ELSE IF MatchesPrimary(c[i], cmp) THEN i
    ELSE IF MatchesAlias(c[i], cmp)
         THEN (IF c[i].q_norm # <<>> THEN i ELSE ScanExisting(c, cmp, i + 1, i))
    ELSE ScanExisting(c, cmp, i + 1, sofar)

\* The scan of lines 413-422 finding nothing, whatever the store holds.
FindExistingNone(c, cmp) == 0

FindExisting(c, cmp) == ScanExisting(c, cmp, 1, 0)

\* ------------------------------------------------------------------ files

Bases == {"qa_cache.json", "alt.json"}

DefaultBase == "qa_cache.json"

\* A file is missing, holds bytes that do not decode, or holds the JSON
\* document {"version": 1, "items": [...]}.
MissingFile == [kind |-> "missing", items |-> <<>>]
CorruptFile == [kind |-> "corrupt", items |-> <<>>]
JsonFile(items) == [kind |-> "json", items |-> items]

\* _cache_filename_for(match): the variant path of the current base.
cache_filename_for(b, match) == <<b, match>>

Paths == Bases \X BOOLEAN

\* _read_json_tolerant(path): the decoded document, or None (ok = FALSE)
\* when unrecoverable.  A missing file decodes to the empty store.
read_json_tolerant(f) ==
    IF f.kind = "missing" THEN [ok |-> TRUE, items |-> <<>>]
    ELSE IF f.kind = "corrupt" THEN [ok |-> FALSE, items |-> <<>>]
    ELSE [ok |-> TRUE, items |-> f.items]

\* vars(ci) as written by json.dumps: the five fields of the record.
EncodeItem(ci) ==
    [q |-> ci.q, q_norm |-> ci.q_norm, a |-> ci.a, ts |-> ci.ts, aliases |-> ci.aliases]

EncodeItems(c) == [i \in DOMAIN c |-> EncodeItem(c[i])]

\* The dict comprehension of _load_cache: items with a falsy q_norm are
\* dropped, a repeated q_norm keeps its first position and its last value.
RECURSIVE DecodeItems(_, _)
DecodeItems(items, acc) ==
    IF items = <<>> THEN acc
    ELSE LET it == Head(items)
         IN DecodeItems(Tail(items),
               IF it.q_norm = <<>> THEN acc
               ELSE DictSetOverwrite(acc, CacheItem(it.q, it.q_norm, it.a, it.ts, it.aliases)))

\* _load_cache with lines 276-279 left out: an unreadable file is loaded as
\* an empty store.
LoadResultReset(f) ==
    IF f.kind = "missing" THEN [keep |-> FALSE, items |-> <<>>]
    ELSE IF ~read_json_tolerant(f).ok THEN [keep |-> FALSE, items |-> <<>>]
    ELSE [keep |-> FALSE, items |-> DecodeItems(read_json_tolerant(f).items, <<>>)]

\* _load_cache up to its assignment: what it will assign to self._cache;
\* keep = TRUE when the file is present but unreadable (the cache is left
\* as it is).
LoadResult(f) ==
    IF f.kind = "missing" THEN [keep |-> FALSE, items |-> <<>>]
    ELSE IF ~read_json_tolerant(f).ok THEN [keep |-> TRUE, items |-> <<>>]
    ELSE [keep |-> FALSE, items |-> DecodeItems(read_json_tolerant(f).items, <<>>)]

\* _save_cache with the empty guard removed.
SaveCacheNoGuard(fs, path, c) == [fs EXCEPT ![path] = JsonFile(EncodeItems(c))]

\* _save_cache: no write when the cache is empty, else the whole cache
\* replaces the file at the active path.
SaveCache(fs, path, c) ==
    IF c = <<>> THEN fs
    ELSE [fs EXCEPT ![path] = JsonFile(EncodeItems(c))]

\* The items appended when the check against existing_qnorms is left out.
MergeAppendedUnchecked(src_items, dst_items) ==
    SelectSeq(src_items, LAMBDA it : it.q_norm # <<>>)

\* The items _merge_cache_files appends: source items with a q_norm that is
\* no q_norm of the destination, in source order.
MergeAppended(src_items, dst_items) ==
    LET existing == {dst_items[i].q_norm : i \in DOMAIN dst_items} \ {<<>>}
    IN SelectSeq(src_items, LAMBDA it : it.q_norm # <<>> /\ it.q_norm \notin existing)

\* The backup step of _merge_cache_files: bak.write_bytes(dst.read_bytes())
\* when dst exists; the backup is named from the base path read at that time.
MergeBackup(bk, fs, b, dst) ==
    IF fs[dst].kind # "missing" THEN [bk EXCEPT ![b] = fs[dst]] ELSE bk

\* The merge step with the "if appended" test of line 250 left out: the
\* destination is written whenever both files decode.
MergeFilesAlwaysWrite(fs, src, dst) ==
    LET src_data == read_json_tolerant(fs[src])
        dst_data == read_json_tolerant(fs[dst])
    IN IF ~src_data.ok \/ ~dst_data.ok THEN fs
       ELSE [fs EXCEPT ![dst] =
                JsonFile(dst_data.items \o MergeAppended(src_data.items, dst_data.items))]

\* The merge step of _merge_cache_files: the files afterwards.
MergeFiles(fs, src, dst) ==
    LET src_data == read_json_tolerant(fs[src])
        dst_data == read_json_tolerant(fs[dst])
    IN IF ~src_data.ok THEN fs
       ELSE IF ~dst_data.ok THEN fs
       ELSE LET add == MergeAppended(src_data.items, dst_data.items)
            IN IF add = <<>> THEN fs
               ELSE [fs EXCEPT ![dst] = JsonFile(dst_data.items \o add)]

\* ------------------------------------------------------------------ state

\* Coroutines that can be in flight at once.
Queriers == {"q1", "q2"}
Updaters == {"u1", "u2"}
Reloaders == {"r1"}
Procs == Queriers \cup Updaters \cup Reloaders

\* Answers the generation backend can give; None stands for every outcome
\* _ask_llm turns into "no usable answer".  The answers are interchangeable,
\* so the first usable answer of a behaviour is taken to be FirstAnswer.
Answers == {"3pm", "4pm"}

FirstAnswer == "3pm"

FallbackSpeech == "Mi dispiace, non ho trovato una risposta."

\* The configurations the host can push (the fields the cache depends on).
Configs == [match_punctuation : BOOLEAN, db_filename : Bases]

VARIABLES
    config,           \* self.config
    base_cache_path,  \* self._base_cache_path
    cache,            \* self._cache, in dict order
    files,            \* the variant files, by path
    bak,              \* the backup file of each base name
    io_lock,          \* self._io_lock: holder first, then the waiters in order
    clock,            \* datetime.now(): advances with every stored answer
    pc,               \* where each coroutine stands
    req,              \* async_process locals
    ret,              \* the response returned by the step just taken, if any
    upd,              \* async_update_config locals
    loadbuf,          \* _load_cache local: what it read, not yet assigned
    nops,             \* calls made so far
    nmerge,           \* merges executed so far
    nflip,            \* times self.config's policy value changed so far
    nrestart,         \* engine constructions after the first
    added,            \* history: forms added to the cache under the lock since
                      \* the active path last changed
    snap,             \* history: the destination as it was before the merge
                      \* of the last policy change
    idem              \* history: the configuration of the async_update_config
                      \* call that ran alone and that no other call has
                      \* followed; done once it has completed

vars == <<config, base_cache_path, cache, files, bak, io_lock, clock, pc, req,
          ret, upd, loadbuf, nops, nmerge, nflip, nrestart, added, snap, idem>>

NoReq == [q |-> <<>>, qn |-> <<>>, mp |-> TRUE, found_key |-> <<>>,
          found_a |-> None, answer |-> None, now |-> 0]

NoRet == [p |-> None, q |-> <<>>, speech |-> None, called |-> FALSE]

NoUpd == [cfg |-> [match_punctuation |-> TRUE, db_filename |-> DefaultBase],
          prev_path |-> <<DefaultBase, TRUE>>, new_path |-> <<DefaultBase, TRUE>>,
          pre |-> [base |-> DefaultBase, bytes |-> MissingFile]]

NoSnap == [base |-> DefaultBase, bytes |-> MissingFile]

NoLoad == [keep |-> TRUE, items |-> <<>>]

NoIdem == [on |-> FALSE, cfg |-> [match_punctuation |-> TRUE, db_filename |-> DefaultBase],
           done |-> FALSE]

\* _active_cache_path()
active_cache_path == cache_filename_for(base_cache_path, config.match_punctuation)

\* __init__ lines 57-70: each variant file of the base that does not exist
\* is created holding {"version": 1, "items": []}.
EnsureVariants(fs, b) ==
    [p \in Paths |->
        IF p[1] = b /\ fs[p].kind = "missing" THEN JsonFile(<<>>) ELSE fs[p]]

\* State after construction.  The variant files of the configured base
\* exist: created empty, or found as they were (here: undecodable bytes).
Init ==
    /\ config \in {c \in Configs : c.db_filename = DefaultBase}
    /\ base_cache_path = DefaultBase
    /\ cache = <<>>
    /\ files \in {fs \in [Paths -> {MissingFile, CorruptFile, JsonFile(<<>>)}] :
                    /\ fs[<<DefaultBase, TRUE>>] = JsonFile(<<>>)
                    /\ fs[<<DefaultBase, FALSE>>].kind # "missing"
                    /\ \A p \in Paths : p[1] # DefaultBase => fs[p].kind = "missing"}
    /\ bak = [b \in Bases |-> MissingFile]
    /\ io_lock = <<>>
    /\ clock = 1
    /\ pc = [p \in Procs |-> "idle"]
    /\ req = [p \in Queriers |-> NoReq]
    /\ ret = NoRet
    /\ upd = [p \in Updaters |-> NoUpd]
    /\ loadbuf = [p \in Updaters \cup Reloaders |-> NoLoad]
    /\ nops = 0
    /\ nmerge = 0
    /\ nflip = 0
    /\ nrestart = 0
    /\ added = {}
    /\ snap = NoSnap
    /\ idem = NoIdem

\* A call starts while fewer than MaxInFlight coroutines are in flight and
\* the call budget lasts.  The callers are interchangeable, so the second
\* slot of a kind is used only while the first is taken.
InFlight == Cardinality({p \in Procs : pc[p] # "idle"})

MayStart(p) ==
    /\ pc[p] = "idle"
    /\ nops < MaxOps
    /\ nops' = nops + 1
    /\ InFlight < MaxInFlight
    /\ p = "q2" => pc["q1"] # "idle"
    /\ p = "u2" => pc["u1"] # "idle"
    /\ p \notin Updaters => idem' = NoIdem

\* The exit of the lock block without the release.
ReleaseNever(p) == io_lock

\* async with self._io_lock, release on exit.
Release(p) == IF io_lock # <<>> /\ Head(io_lock) = p THEN Tail(io_lock) ELSE io_lock

\* The lock taken by whoever asks, held or not.
HoldsLockAlways(p) == TRUE

HoldsLock(p) == io_lock # <<>> /\ Head(io_lock) = p

\* History of the forms added under the lock: a mutation of the cache by the
\* request for qn adds qn.
NoteAdded(qn) == added' = IF cache' # cache THEN added \cup {qn} ELSE added

\* The response returned to the caller.
Respond(p, q, speech, called) ==
    /\ ret' = [p |-> p, q |-> q, speech |-> speech, called |-> called]
    /\ req' = [req EXCEPT ![p] = NoReq]

\* ------------------------------------------------------------------ async_process

\* Lines 398-432, the mutation made under the lock for a usable answer.  The
\* policy is the one read when the request started.
StoreAnswer(c, mp, q, qn, answer, now) ==
    IF mp
    THEN DictSet(c, CacheItem(q, qn, answer, now, <<>>))
    ELSE LET i == FindExisting(c, strip_punctuation(qn))
         IN IF i # 0
            THEN (IF qn # c[i].q_norm /\ qn \notin AliasSet(c[i])
                  THEN AppendAlias(c, c[i].q_norm, qn)
                  ELSE c)
            ELSE DictSet(c, CacheItem(q, qn, answer, now, <<>>))

\* Lines 382-388, the alias append made under the lock after a fuzzy hit:
\* the record is fetched again by its key and the check is repeated.
StoreAlias(c, key, qn) ==
    IF key \in Keys(c) /\ qn # key /\ qn \notin AliasSet(c[KeyIndex(c, key)])
    THEN AppendAlias(c, key, qn)
    ELSE c

\* Lines 346 and 353, recognising only keys that carry no punctuation.
ExactHitUnpunctuated(c, qn) == qn \in Keys(c) /\ strip_punctuation(qn) = qn

\* Lines 346 and 353: "if qn in self._cache".
ExactHit(c, qn) == qn \in Keys(c)

\* Lines 337-393 and the call of line 396: the lookup, up to the first await.
ProcessStart(p, q) ==
    /\ MayStart(p)
    /\ LET qn == normalize(q)
           mp == config.match_punctuation
           fi == FindFuzzy(cache, strip_punctuation(qn))
           miss == [NoReq EXCEPT !.q = q, !.qn = qn, !.mp = mp]
       IN IF ExactHit(cache, qn)
          THEN \* exact hit, either policy
               /\ Respond(p, q, cache[KeyIndex(cache, qn)].a, FALSE)
               /\ UNCHANGED <<pc, cache, io_lock>>
          ELSE IF mp \/ fi = 0
          THEN \* miss: the backend is called
               /\ pc' = [pc EXCEPT ![p] = "llm"]
               /\ req' = [req EXCEPT ![p] = miss]
               /\ ret' = NoRet
               /\ UNCHANGED <<cache, io_lock>>
          ELSE IF qn = cache[fi].q_norm \/ qn \in AliasSet(cache[fi])
          THEN \* fuzzy hit on a form already recorded
               /\ Respond(p, q, cache[fi].a, FALSE)
               /\ UNCHANGED <<pc, cache, io_lock>>
          ELSE \* fuzzy hit on a new form: alias append under the lock
               /\ req' = [req EXCEPT ![p] = [miss EXCEPT !.found_key = cache[fi].q_norm,
                                                         !.found_a = cache[fi].a]]
               /\ io_lock' = Append(io_lock, p)
               /\ ret' = NoRet
               /\ IF io_lock = <<>>
                  THEN /\ cache' = StoreAlias(cache, cache[fi].q_norm, qn)
                       /\ pc' = [pc EXCEPT ![p] = "alias_save"]
                  ELSE /\ cache' = cache
                       /\ pc' = [pc EXCEPT ![p] = "alias_wait"]
    /\ NoteAdded(normalize(q))
    /\ UNCHANGED <<config, base_cache_path, files, bak, clock, upd, loadbuf,
                   nmerge, nflip, nrestart, snap>>

\* Lines 380-388 after waiting for the lock.
AliasLocked(p) ==
    /\ pc[p] = "alias_wait"
    /\ HoldsLock(p)
    /\ cache' = StoreAlias(cache, req[p].found_key, req[p].qn)
    /\ IF cache' # cache
       THEN /\ pc' = [pc EXCEPT ![p] = "alias_save"]
            /\ ret' = NoRet
            /\ UNCHANGED <<io_lock, req>>
       ELSE /\ pc' = [pc EXCEPT ![p] = "idle"]
            /\ io_lock' = Release(p)
            /\ Respond(p, req[p].q, req[p].found_a, FALSE)
    /\ NoteAdded(req[p].qn)
    /\ UNCHANGED <<config, base_cache_path, files, bak, clock, upd, loadbuf,
                   nops, nmerge, nflip, nrestart, snap, idem>>

\* Line 389 and lines 391-393: the save, the release, the response.
AliasSaved(p) ==
    /\ pc[p] = "alias_save"
    /\ files' = SaveCache(files, active_cache_path, cache)
    /\ io_lock' = Release(p)
    /\ pc' = [pc EXCEPT ![p] = "idle"]
    /\ Respond(p, req[p].q, req[p].found_a, FALSE)
    /\ UNCHANGED <<config, base_cache_path, cache, bak, clock, upd, loadbuf,
                   nops, nmerge, nflip, nrestart, added, snap, idem>>

\* Line 398 with the test left out: every outcome of the backend is stored.
UsableAlways(answer) == TRUE

\* Line 398, "if answer": None and the empty string are not usable.
Usable(answer) == answer # None

\* Line 396 returns; lines 398-401 run up to the lock, and through the
\* mutation when the lock is free.
LlmReturn(p, answer) ==
    /\ pc[p] = "llm"
    /\ IF ~Usable(answer)
       THEN /\ pc' = [pc EXCEPT ![p] = "idle"]
            /\ Respond(p, req[p].q, FallbackSpeech, TRUE)
            /\ UNCHANGED <<cache, io_lock, clock>>
       ELSE /\ clock = 1 => answer = FirstAnswer
            /\ clock' = clock + 1
            /\ req' = [req EXCEPT ![p].answer = answer, ![p].now = clock]
            /\ io_lock' = Append(io_lock, p)
            /\ ret' = NoRet
            /\ IF io_lock = <<>>
               THEN /\ cache' = StoreAnswer(cache, req[p].mp, req[p].q, req[p].qn,
                                            answer, clock)
                    /\ pc' = [pc EXCEPT ![p] = "store_save"]
               ELSE /\ cache' = cache
                    /\ pc' = [pc EXCEPT ![p] = "store_wait"]
    /\ NoteAdded(req[p].qn)
    /\ UNCHANGED <<config, base_cache_path, files, bak, upd, loadbuf,
                   nops, nmerge, nflip, nrestart, snap, idem>>

\* Lines 402-432 after waiting for the lock.
StoreLocked(p) ==
    /\ pc[p] = "store_wait"
    /\ HoldsLock(p)
    /\ cache' = StoreAnswer(cache, req[p].mp, req[p].q, req[p].qn,
                            req[p].answer, req[p].now)
    /\ pc' = [pc EXCEPT ![p] = "store_save"]
    /\ ret' = NoRet
    /\ NoteAdded(req[p].qn)
    /\ UNCHANGED <<config, base_cache_path, files, bak, io_lock, clock, req, upd,
                   loadbuf, nops, nmerge, nflip, nrestart, snap, idem>>

\* Line 434 and lines 436-438: the save, the release, the response.
StoreSaved(p) ==
    /\ pc[p] = "store_save"
    /\ files' = SaveCache(files, active_cache_path, cache)
    /\ io_lock' = Release(p)
    /\ pc' = [pc EXCEPT ![p] = "idle"]
    /\ Respond(p, req[p].q, req[p].answer, TRUE)
    /\ UNCHANGED <<config, base_cache_path, cache, bak, clock, upd, loadbuf,
                   nops, nmerge, nflip, nrestart, added, snap, idem>>

\* ------------------------------------------------------------------ loads

\* _load_cache, first half: the active path and the file are read.
LoadRead(p) ==
    /\ loadbuf' = [loadbuf EXCEPT ![p] = LoadResult(files[active_cache_path])]
    /\ pc' = [pc EXCEPT ![p] = "assign"]
    /\ ret' = NoRet
    /\ UNCHANGED <<config, base_cache_path, cache, files, bak, io_lock, clock,
                   req, upd, nmerge, nflip, nrestart, added, snap>>

\* async_reload / async_prepare: the load is handed to the executor.
Reload(p) ==
    /\ p \in Reloaders
    /\ MayStart(p)
    /\ LoadRead(p)

\* _load_cache, second half: self._cache is assigned (or left alone), and
\* the caller goes on: async_update_config leaves its lock block.
LoadAssign(p) ==
    /\ pc[p] = "assign"
    /\ cache' = IF loadbuf[p].keep THEN cache ELSE loadbuf[p].items
    /\ loadbuf' = [loadbuf EXCEPT ![p] = NoLoad]
    /\ io_lock' = Release(p)
    /\ pc' = [pc EXCEPT ![p] = "idle"]
    /\ ret' = NoRet
    /\ idem' = IF idem.on THEN [idem EXCEPT !.done = TRUE] ELSE idem
    /\ UNCHANGED <<config, base_cache_path, files, bak, clock, req, upd,
                   nops, nmerge, nflip, nrestart, added, snap>>

\* ------------------------------------------------------------------ async_update_config

\* Lines 99-112 (policy changed: the paths are computed and the lock is
\* requested) or lines 126-147 (otherwise: config and base path are set and
\* the load is handed to the executor).
UpdateStart(p, c) ==
    /\ MayStart(p)
    /\ IF config.match_punctuation # c.match_punctuation
       THEN /\ upd' = [upd EXCEPT ![p] =
                          [cfg |-> c,
                           prev_path |-> cache_filename_for(base_cache_path,
                                                            config.match_punctuation),
                           new_path |-> cache_filename_for(base_cache_path,
                                                           c.match_punctuation),
                           pre |-> NoSnap]]
            /\ io_lock' = Append(io_lock, p)
            /\ pc' = [pc EXCEPT ![p] = "merge"]
            /\ UNCHANGED <<config, base_cache_path, added>>
       ELSE /\ config' = c
            /\ base_cache_path' = c.db_filename
            /\ pc' = [pc EXCEPT ![p] = "load"]
            /\ added' = IF c.db_filename # base_cache_path THEN {} ELSE added
            /\ UNCHANGED <<upd, io_lock>>
    /\ ret' = NoRet
    /\ idem' = IF ~(\A r \in Procs : pc[r] = "idle") THEN NoIdem
               ELSE IF idem.on /\ idem.done /\ idem.cfg = c THEN idem
               ELSE [on |-> TRUE, cfg |-> c, done |-> FALSE]
    /\ UNCHANGED <<cache, files, bak, clock, req, loadbuf, nmerge, nflip, nrestart, snap>>

\* Line 114 (and the two reads of lines 118-119, which change nothing):
\* _merge_cache_files(prev_path, new_path), under the lock.
UpdateMerge(p) ==
    /\ pc[p] = "merge"
    /\ HoldsLock(p)
    /\ bak' = MergeBackup(bak, files, base_cache_path, upd[p].new_path)
    /\ files' = MergeFiles(files, upd[p].prev_path, upd[p].new_path)
    /\ nmerge' = nmerge + 1
    /\ upd' = [upd EXCEPT ![p].pre = [base |-> base_cache_path,
                                      bytes |-> files[upd[p].new_path]]]
    /\ pc' = [pc EXCEPT ![p] = "setcfg"]
    /\ ret' = NoRet
    /\ UNCHANGED <<config, base_cache_path, cache, io_lock, clock, req,
                   loadbuf, nops, nflip, nrestart, added, snap, idem>>

\* Line 121: self.config = config.
UpdateSetConfig(p) ==
    /\ pc[p] = "setcfg"
    /\ config' = upd[p].cfg
    /\ nflip' = IF config.match_punctuation # upd[p].cfg.match_punctuation
                THEN nflip + 1 ELSE nflip
    /\ snap' = IF config.match_punctuation # upd[p].cfg.match_punctuation
               THEN upd[p].pre ELSE snap
    /\ added' = IF config.match_punctuation # upd[p].cfg.match_punctuation
                THEN {} ELSE added
    /\ upd' = [upd EXCEPT ![p] = NoUpd]
    /\ pc' = [pc EXCEPT ![p] = "load"]
    /\ ret' = NoRet
    /\ UNCHANGED <<base_cache_path, cache, files, bak, io_lock, clock, req,
                   loadbuf, nops, nmerge, nrestart, idem>>

\* Lines 122 and 147: the load of the update is handed to the executor.
UpdateLoad(p) ==
    /\ p \in Updaters
    /\ pc[p] = "load"
    /\ LoadRead(p)
    /\ UNCHANGED <<nops, idem>>

\* ------------------------------------------------------------------ construction

\* __init__ of a new engine over the files the previous one left (a restart
\* of the host, which keeps the configuration entry), once no coroutine of
\* the previous one is in flight.
Restart ==
    /\ nrestart < MaxRestarts
    /\ \A p \in Procs : pc[p] = "idle"
    /\ nrestart' = nrestart + 1
    /\ base_cache_path' = config.db_filename
    /\ cache' = <<>>
    /\ files' = EnsureVariants(files, config.db_filename)
    /\ io_lock' = <<>>
    /\ ret' = NoRet
    /\ added' = {}
    /\ idem' = NoIdem
    /\ UNCHANGED <<config, bak, clock, pc, req, upd, loadbuf, nops, nmerge, nflip, snap>>

Next ==
    \/ \E p \in Queriers, q \in Texts : ProcessStart(p, q)
    \/ \E p \in Queriers : AliasLocked(p)
    \/ \E p \in Queriers : AliasSaved(p)
    \/ \E p \in Queriers, a \in Answers \cup {None} : LlmReturn(p, a)
    \/ \E p \in Queriers : StoreLocked(p)
    \/ \E p \in Queriers : StoreSaved(p)
    \/ \E p \in Reloaders : Reload(p)
    \/ \E p \in Updaters, c \in Configs : UpdateStart(p, c)
    \/ \E p \in Updaters : UpdateMerge(p)
    \/ \E p \in Updaters : UpdateSetConfig(p)
    \/ \E p \in Updaters : UpdateLoad(p)
    \/ \E p \in Updaters \cup Reloaders : LoadAssign(p)
    \/ Restart

Spec == Init /\ [][Next]_vars

\* The steps of coroutine p after its first: the event loop resumes every
\* coroutine that is ready, each executor job and each backend call ends
\* (the HTTP call carries a 60 s timeout), and asyncio.Lock wakes its waiters
\* in order.
Resume(p) ==
    \/ p \in Queriers /\ AliasLocked(p)
    \/ p \in Queriers /\ AliasSaved(p)
    \/ p \in Queriers /\ \E a \in Answers \cup {None} : LlmReturn(p, a)
    \/ p \in Queriers /\ StoreLocked(p)
    \/ p \in Queriers /\ StoreSaved(p)
    \/ p \in Updaters /\ UpdateMerge(p)
    \/ p \in Updaters /\ UpdateSetConfig(p)
    \/ p \in Updaters /\ UpdateLoad(p)
    \/ p \in Updaters \cup Reloaders /\ LoadAssign(p)

\* The behaviours of at most MaxLiveOps calls.
NextLive ==
    \/ \E p \in Queriers, q \in Texts : nops < MaxLiveOps /\ ProcessStart(p, q)
    \/ \E p \in Reloaders : nops < MaxLiveOps /\ Reload(p)
    \/ \E p \in Updaters, c \in Configs : nops < MaxLiveOps /\ UpdateStart(p, c)
    \/ \E p \in Procs : Resume(p)
    \/ Restart

FairSpec == Init /\ [][NextLive]_vars /\ \A p \in Procs : WF_vars(Resume(p))

\* Query texts with three forms that differ only in punctuation, so that a
\* store can hold several records matching one stripped query.
TieTexts == { <<"H", "i", "!">>, <<" ", "h", "i", " ">>, <<"h", "i", "?">> }

\* The engine called with the texts of TieTexts.
NextTie ==
    \/ \E p \in Queriers, q \in TieTexts : ProcessStart(p, q)
    \/ \E p \in Queriers : AliasLocked(p)
    \/ \E p \in Queriers : AliasSaved(p)
    \/ \E p \in Queriers, a \in Answers \cup {None} : LlmReturn(p, a)
    \/ \E p \in Queriers : StoreLocked(p)
    \/ \E p \in Queriers : StoreSaved(p)
    \/ \E p \in Reloaders : Reload(p)
    \/ \E p \in Updaters, c \in Configs : UpdateStart(p, c)
    \/ \E p \in Updaters : UpdateMerge(p)
    \/ \E p \in Updaters : UpdateSetConfig(p)
    \/ \E p \in Updaters : UpdateLoad(p)
    \/ \E p \in Updaters \cup Reloaders : LoadAssign(p)
    \/ Restart

TieSpec == Init /\ [][NextTie]_vars

\* The engine receiving conversation requests only: no reload, no option
\* update and no restart happens.
NextQueries ==
    \/ \E p \in Queriers, q \in Texts : ProcessStart(p, q)
    \/ \E p \in Queriers : AliasLocked(p)
    \/ \E p \in Queriers : AliasSaved(p)
    \/ \E p \in Queriers, a \in Answers \cup {None} : LlmReturn(p, a)
    \/ \E p \in Queriers : StoreLocked(p)
    \/ \E p \in Queriers : StoreSaved(p)

QuerySpec == Init /\ [][NextQueries]_vars

\* ------------------------------------------------------------------ claims

Quiescent == \A p \in Procs : pc[p] = "idle"

\* A step of an async_process coroutine.
QuerierStep == \E p \in Queriers : pc'[p] # pc[p] \/ ret'.p = p

\* The primary fingerprint and the aliases of every record, as one list.
RECURSIVE FormList(_)
FormList(items) ==
    IF items = <<>> THEN <<>>
    ELSE <<Head(items).q_norm>> \o Head(items).aliases \o FormList(Tail(items))

FormSet(items) == {FormList(items)[i] : i \in DOMAIN FormList(items)}

NoRepeat(seq) == \A i, j \in DOMAIN seq : i # j => seq[i] # seq[j]

\* C1: within one variant store, in memory and on its file, no string occurs
\* twice among the primary fingerprints and the aliases of all records.
C1_Uniqueness ==
    /\ NoRepeat(FormList(cache))
    /\ \A f \in Paths : NoRepeat(FormList(files[f].items))

\* C2: once every call has completed, each form added to the in-memory store
\* under the lock since the policy and the base filename last changed is
\* still in the in-memory store and in the active variant file.  (Stated for
\* the forms other than the empty one, which no load keeps.)
C2_NoLostUpdate ==
    Quiescent =>
        \A x \in added \ {<<>>} :
                         /\ x \in FormSet(cache)
                         /\ x \in FormSet(files[active_cache_path].items)

\* C3: a record a variant file holds is in that file ever after: no step
\* removes a primary fingerprint from a file.  (Stated for the fingerprints
\* other than the empty one, which no load keeps.)
C3_NeverDeleted ==
    [][\A f \in Paths :
          Keys(files[f].items) \ {<<>>} \subseteq Keys(files'[f].items)]_vars

IsPrefix(a, b) == Len(a) <= Len(b) /\ \A i \in DOMAIN a : a[i] = b[i]

\* C4: no step of a query changes the answer or the timestamp of a record of
\* the in-memory store, and a record's alias list only grows.  (Stated for
\* the records whose fingerprint is not empty.)
C4_AnswerImmutable ==
    [][QuerierStep =>
         \A i \in DOMAIN cache :
            (cache[i].q_norm # <<>> /\ cache[i].q_norm \in Keys(cache')) =>
               LET r == cache'[KeyIndex(cache', cache[i].q_norm)]
               IN /\ r.a = cache[i].a
                  /\ r.ts = cache[i].ts
                  /\ IsPrefix(cache[i].aliases, r.aliases)]_vars

\* The call async_process(q) of caller p starts with this step.
StartedQuery(p, q) ==
    /\ pc[p] = "idle"
    /\ nops' = nops + 1
    /\ \/ ret'.p = p /\ ret'.q = q
       \/ pc'[p] # "idle" /\ req'[p].q = q

\* C5: a query whose normalized form is the primary fingerprint of a record
\* of the active store returns that record's answer in the same step, calls
\* no backend, and leaves the store, every file and the backup as they were.
C5_ExactHitPureRead ==
    [][\A p \in Queriers, q \in Texts :
          (StartedQuery(p, q) /\ normalize(q) \in Keys(cache)) =>
              /\ ret' = [p |-> p, q |-> q,
                         speech |-> cache[KeyIndex(cache, normalize(q))].a,
                         called |-> FALSE]
              /\ pc'[p] = "idle"
              /\ cache' = cache
              /\ files' = files
              /\ bak' = bak]_vars

\* Reached: an exact hit under the punctuation-sensitive policy has answered.
C5_Witness ==
    /\ ret.p \in Queriers
    /\ ~ret.called
    /\ config.match_punctuation
    /\ normalize(ret.q) \in Keys(cache)
    /\ ret.speech = cache[KeyIndex(cache, normalize(ret.q))].a

\* The records of store c that the stripped form of qn matches, by their
\* primary fingerprint or by an alias.
FuzzyMatches(c, qn) ==
    {i \in DOMAIN c : \/ MatchesPrimary(c[i], strip_punctuation(qn))
                      \/ MatchesAlias(c[i], strip_punctuation(qn))}

\* C6: under policy false, a query whose normalized form qn is no primary
\* fingerprint but whose stripped form matches a record R calls no backend,
\* creates no record and changes no answer or timestamp; when it answers it
\* returns R's answer, and qn is then an alias of R in the in-memory store
\* and, where it had to be appended, in the active variant file.
C6_FuzzyHitNoDrift ==
    [][\A p \in Queriers, q \in Texts :
          LET qn == normalize(q)
          IN /\ (/\ StartedQuery(p, q)
                  /\ ~config.match_punctuation
                  /\ qn \notin Keys(cache)
                  /\ FuzzyMatches(cache, qn) # {}) =>
                    /\ pc'[p] # "llm"
                    /\ Len(cache') = Len(cache)
                    /\ \A i \in DOMAIN cache : /\ cache'[i].q_norm = cache[i].q_norm
                                               /\ cache'[i].a = cache[i].a
                                               /\ cache'[i].ts = cache[i].ts
                    /\ ret'.p = p =>
                          /\ ~ret'.called
                          /\ \E i \in FuzzyMatches(cache, qn) :
                                /\ ret'.speech = cache[i].a
                                /\ qn \in AliasSet(cache[i])
             /\ (pc[p] = "alias_save" /\ pc'[p] = "idle" /\ req[p].q = q) =>
                    /\ ~ret'.called
                    /\ \E i \in DOMAIN cache' :
                          /\ cache'[i].q_norm = req[p].found_key
                          /\ cache'[i].a = ret'.speech
                          /\ qn \in AliasSet(cache'[i])
                    /\ \E j \in DOMAIN files'[active_cache_path].items :
                          LET it == files'[active_cache_path].items[j]
                          IN /\ it.q_norm = req[p].found_key
                             /\ it.a = ret'.speech
                             /\ qn \in AliasSet(it)]_vars

\* A save of the in-memory store by caller p (lines 389 and 434).
SaveStep(p) == pc[p] \in {"alias_save", "store_save"} /\ pc'[p] = "idle"

\* C7: a save that runs while the in-memory store is empty leaves every
\* file as it was.
C7_EmptySaveNoWrite ==
    [][\A p \in Queriers : (SaveStep(p) /\ cache = <<>>) => files' = files]_vars

\* Reached: a request that stored an answer has saved and answered while the
\* in-memory store was empty, over an active file that is not an empty store.
C7_Witness ==
    /\ ret.p \in Queriers
    /\ ret.called
    /\ ret.speech \in Answers
    /\ cache = <<>>
    /\ files[active_cache_path] # JsonFile(<<>>)

\* The merge step of updater u (line 114).
MergeStep(u) == pc[u] = "merge" /\ pc'[u] = "setcfg"

BothDecode(u) ==
    /\ files[upd[u].prev_path].kind # "corrupt"
    /\ files[upd[u].new_path].kind # "corrupt"

C9_SingleBackup ==
    ((\A u \in Updaters : pc[u] # "setcfg") /\ snap.bytes.kind # "missing")
        => bak[snap.base] = snap.bytes

\* C10: the merges executed are as many as the flips of the policy value.
C10_MergeOncePerFlip ==
    (\A u \in Updaters : pc[u] # "setcfg") => nmerge = nflip

\* C11: async_update_config(c) applied a second time, right after it was
\* applied alone, leaves the configuration, the base path, the in-memory
\* store and the variant files as the first application left them: no step
\* of the second application changes any of them.
C11_UpdateIdempotent ==
    [][(idem.on /\ idem.done /\ idem' = idem) =>
          /\ config' = config
          /\ base_cache_path' = base_cache_path
          /\ cache' = cache
          /\ files' = files]_vars

\* The backend call of caller p returns with this step.
BackendReturned(p) == pc[p] = "llm" /\ pc'[p] # "llm"

\* C12: when the backend call of a query returns without a usable answer,
\* the query returns the fallback message in that step, and the in-memory
\* store, every variant file and the backup are left as they were.
C12_FailClosedFallback ==
    [][\A p \in Queriers :
          (BackendReturned(p) /\ req'[p].answer \notin Answers) =>
              /\ ret' = [p |-> p, q |-> req[p].q, speech |-> FallbackSpeech,
                         called |-> TRUE]
              /\ pc'[p] = "idle"
              /\ cache' = cache
              /\ files' = files
              /\ bak' = bak]_vars

\* Reached: a query has returned the fallback message after its backend call,
\* over a store that holds a record.
C12_Witness ==
    /\ ret.p \in Queriers
    /\ ret.called
    /\ ret.speech = FallbackSpeech
    /\ cache # <<>>

\* C13: every async_process call that has started returns a response, and
\* every coroutine that holds the engine lock releases it.
C13_EventuallyAnswered ==
    /\ \A p \in Queriers : (pc[p] # "idle") ~> (pc[p] = "idle" /\ ret.p = p)
    /\ \A p \in Procs : HoldsLock(p) ~> ~HoldsLock(p)

\* Reached: a request waits for the lock while a configuration update that
\* found its destination file undecodable holds it.
C13_Witness ==
    \E p \in Queriers, u \in Updaters :
        /\ pc[p] \in {"alias_wait", "store_wait"}
        /\ HoldsLock(u)
        /\ pc[u] = "setcfg"
        /\ upd[u].pre.bytes.kind = "corrupt"

\* A configuration update that changes the policy has set the new policy
\* (line 121) and its reload (line 122) has not yet assigned the store.
Switching(u) == HoldsLock(u) /\ pc[u] \in {"load", "assign"}

\* C14: a lookup that runs while a policy change is between setting the new
\* policy and completing its reload observes the store of the newly active
\* file (when that file decodes), not the store of the previous policy.
\* (Compared on the records whose fingerprint is not empty.)
C14_NoPartialMerge ==
    [][\A p \in Queriers, q \in Texts :
          (/\ StartedQuery(p, q)
           /\ \E u \in Updaters : Switching(u)
           /\ files[active_cache_path].kind = "json") =>
              SelectSeq(cache, LAMBDA r : r.q_norm # <<>>) =
                  DecodeItems(files[active_cache_path].items, <<>>)]_vars

\* The first step of an async_update_config call of updater u that does not
\* change the policy (lines 126-145).
PlainUpdateStep(u) == pc[u] = "idle" /\ pc'[u] = "load"

\* The last step of an async_update_config call of updater u, no other
\* update being in flight.
UpdateEnds(u) ==
    /\ pc[u] = "assign"
    /\ pc'[u] = "idle"
    /\ \A v \in Updaters \ {u} : pc[v] = "idle"

\* C15: an update that leaves the policy unchanged runs no merge, writes no
\* variant or backup file and sets the base path to the new configuration's
\* value; and every update ends with the base path equal to the value of
\* the configuration in force.
C15_PolicyChangeDispatch ==
    [][\A u \in Updaters :
          /\ PlainUpdateStep(u) =>
                /\ nmerge' = nmerge
                /\ files' = files
                /\ bak' = bak
                /\ base_cache_path' = config'.db_filename
          /\ UpdateEnds(u) => base_cache_path' = config'.db_filename]_vars

\* The record of a file item: its fingerprint and its creation timestamp.
RecordIds(items) == {<<items[i].q_norm, items[i].ts>> : i \in DOMAIN items}

\* C16: a merge whose destination file is present but undecodable leaves
\* that file as it was; and while the destination of the last policy change,
\* found undecodable, is still so, no step replaces its contents with
\* records that the file of the other variant holds.
C16_UnreadableDestination ==
    [][/\ \A u \in Updaters :
             (MergeStep(u) /\ files[upd[u].new_path].kind = "corrupt") =>
                 files'[upd[u].new_path] = files[upd[u].new_path]
       /\ LET dst == cache_filename_for(snap.base, config.match_punctuation)
               src == cache_filename_for(snap.base, ~config.match_punctuation)
           IN (/\ snap.bytes.kind = "corrupt"
               /\ files[dst].kind = "corrupt"
               /\ files'[dst] # files[dst]) =>
                  RecordIds(files'[dst].items) \cap RecordIds(files[src].items) = {}]_vars

\* C17: a merge in which every fingerprint of the source file is already a
\* fingerprint of the destination file (the source may be empty, missing or
\* undecodable) leaves the destination file as it was; a missing destination
\* stays missing.
C17_NoOpMergeUntouched ==
    [][\A u \in Updaters :
          (/\ MergeStep(u)
           /\ Keys(files[upd[u].prev_path].items)
                 \subseteq Keys(files[upd[u].new_path].items)) =>
              files'[upd[u].new_path] = files[upd[u].new_path]]_vars

\* Reached: a merge has run from a source holding a record into a
\* destination that already held every source fingerprint.
C17_Witness ==
    \E u \in Updaters :
        /\ pc[u] = "setcfg"
        /\ files[upd[u].prev_path].items # <<>>
        /\ Keys(files[upd[u].prev_path].items) \subseteq Keys(upd[u].pre.bytes.items)
        /\ files[upd[u].new_path] = upd[u].pre.bytes

\* Reached: a merge has run over a missing source and a missing destination.
C17_WitnessMissing ==
    \E u \in Updaters :
        /\ pc[u] = "setcfg"
        /\ files[upd[u].prev_path].kind = "missing"
        /\ upd[u].pre.bytes.kind = "missing"
        /\ files[upd[u].new_path].kind = "missing"

\* A step that reads the active file for a load, and the step that ends
\* the load.
LoadReadStep(p) == pc[p] # "assign" /\ pc'[p] = "assign"
LoadAssignStep(p) == pc[p] = "assign" /\ pc'[p] = "idle"

StoreStep(p) == pc[p] \in {"llm", "store_wait"} /\ pc'[p] = "store_save"

\* C19: under policy true a request that missed the store and got a usable
\* answer adds one new record keyed by its normalized text, with that
\* answer and no aliases, and leaves every record the store held unchanged.
\* Stated for requests with a non-empty normalized text.
C19_PolicyTrueNeverMerges ==
    [][\A p \in Queriers :
          (StoreStep(p) /\ req[p].mp /\ req[p].qn # <<>>) =>
              cache' = Append(cache, CacheItem(req[p].q, req[p].qn,
                                               req'[p].answer, req'[p].now, <<>>))]_vars

\* The same for a request whose normalized text is still no key of the
\* store when the mutation is made.
C19_AbsentAtStore ==
    [][\A p \in Queriers :
          (StoreStep(p) /\ req[p].mp /\ req[p].qn \notin Keys(cache)) =>
              cache' = Append(cache, CacheItem(req[p].q, req[p].qn,
                                               req'[p].answer, req'[p].now, <<>>))]_vars

\* The records of a store whose stripped fingerprint or one of whose
\* stripped aliases equals the stripped form of qn.
StrippedMatches(c, qn) ==
    {i \in DOMAIN c : \/ strip_punctuation(c[i].q_norm) = strip_punctuation(qn)
                      \/ \E j \in DOMAIN c[i].aliases :
                            strip_punctuation(c[i].aliases[j]) = strip_punctuation(qn)}

\* C20: under policy false, when a request that missed and got a usable
\* answer makes its mutation under the lock: if the store then holds a
\* record whose stripped fingerprint or alias equals the stripped text, no
\* record is created, the text is appended to the aliases of one such
\* record unless it is that record's fingerprint or already an alias, and
\* nothing else in the store changes (answers and timestamps stay, the new
\* answer is stored nowhere); if the store holds no such record, exactly
\* one record keyed by the text is appended.
C20_RaceRecheck ==
    [][\A p \in Queriers :
          (StoreStep(p) /\ ~req[p].mp) =>
              LET qn == req[p].qn
                  M == StrippedMatches(cache, qn)
              IN IF M # {}
                 THEN /\ files' = files
                      /\ \E i \in M :
                            cache' = IF qn # cache[i].q_norm /\ qn \notin AliasSet(cache[i])
                                     THEN [cache EXCEPT ![i].aliases = Append(@, qn)]
                                     ELSE cache
                 ELSE cache' = Append(cache, CacheItem(req[p].q, qn, req'[p].answer,
                                                       req'[p].now, <<>>))]_vars

\* Reached: a policy-false request that missed has made its mutation, the
\* store holds its text as an alias of a record created by another request,
\* and no record carries this request's answer time.
C20_Witness ==
    \E p \in Queriers :
        /\ pc[p] = "store_save"
        /\ ~req[p].mp
        /\ \E i \in DOMAIN cache : req[p].qn \in AliasSet(cache[i])
        /\ \A i \in DOMAIN cache : cache[i].ts # req[p].now

\* The coroutines between the entry of a lock block's body and its exit:
\* an alias append or a new record with its save pending, or a policy
\* migration up to the end of its reload (an update that did not change the
\* policy never asks for the lock).
InLockBlock ==
    {p \in Queriers : pc[p] \in {"alias_save", "store_save"}}
    \cup {u \in Updaters : \/ pc[u] = "setcfg"
                            \/ /\ pc[u] \in {"load", "assign"}
                               /\ \E i \in DOMAIN io_lock : io_lock[i] = u}

\* The holder of the lock on a given queue.
LockOwner(l) == IF l = <<>> THEN {} ELSE {Head(l)}

\* C21: at most one lock block is in progress at a time and its coroutine
\* holds the lock; every in-place change of the store (a record inserted,
\* an alias appended) is made by a request that holds the lock, every write
\* of a file by a running engine is made by the lock holder, and any other
\* change of the store is its replacement by what a load has read.
C21_MutationsUnderLock ==
    [][nrestart' = nrestart =>
          /\ InLockBlock \subseteq LockOwner(io_lock)
          /\ InLockBlock' \subseteq LockOwner(io_lock')
          /\ cache' # cache =>
                \/ \E p \in Queriers :
                      /\ LockOwner(io_lock') = {p}
                      /\ pc'[p] # pc[p]
                      /\ pc'[p] \in {"alias_save", "store_save"}
                \/ \E p \in Updaters \cup Reloaders :
                      /\ LoadAssignStep(p)
                      /\ cache' = loadbuf[p].items
          /\ files' # files =>
                \E p \in Queriers \cup Updaters :
                      /\ LockOwner(io_lock) = {p}
                      /\ pc[p] \in {"alias_save", "store_save", "merge"}
                      /\ pc'[p] # pc[p]]_vars

\* Reached: a request has changed the store under the lock with its save
\* pending while another request or a policy migration waits for the lock.
C21_Witness ==
    \E p \in Queriers :
        /\ pc[p] \in {"alias_save", "store_save"}
        /\ Len(io_lock) >= 2
        /\ io_lock[1] = p
        /\ pc[io_lock[2]] \in {"alias_wait", "store_wait", "merge"}

\* The primary fingerprints of a list of records, in order.
KeySeq(items) == [i \in DOMAIN items |-> items[i].q_norm]

\* The earliest element of a non-empty set of record positions.
Earliest(M) == CHOOSE i \in M : \A j \in M : i <= j

\* C22: under policy false a query with no exact hit whose stripped form
\* matches one or more records selects the earliest of them in the store's
\* order: that record's answer is the one returned, its key the one kept for
\* the alias append, and an append made in the same step goes to it; an
\* append made after waiting for the lock goes to the record of the kept
\* key; and writing the store to a file and decoding it again gives the
\* records in the same order.
C22_FirstMatchWins ==
    [][/\ \A p \in Queriers, q \in TieTexts :
            LET qn == normalize(q)
                M == StrippedMatches(cache, qn)
            IN (/\ StartedQuery(p, q)
                /\ ~config.match_punctuation
                /\ qn \notin Keys(cache)
                /\ M # {}) =>
                  LET r == cache[Earliest(M)]
                  IN /\ pc'[p] # "llm"
                     /\ ret'.p = p => ret'.speech = r.a
                     /\ pc'[p] # "idle" => /\ req'[p].found_key = r.q_norm
                                           /\ req'[p].found_a = r.a
                     /\ cache' # cache =>
                           cache' = [cache EXCEPT ![Earliest(M)].aliases = Append(@, qn)]
       /\ \A p \in Queriers :
            (pc[p] = "alias_wait" /\ pc'[p] # "alias_wait" /\ cache' # cache) =>
                \E i \in DOMAIN cache :
                    /\ cache[i].q_norm = req[p].found_key
                    /\ cache' = [cache EXCEPT ![i].aliases = Append(@, req[p].qn)]
       /\ KeySeq(DecodeItems(EncodeItems(cache'), <<>>)) = KeySeq(cache')]_vars

\* The append made after waiting for the lock goes to the earliest record
\* of the store, as it is then, that the stripped query matches.
C22_DeferredAppendEarliest ==
    [][\A p \in Queriers :
          (pc[p] = "alias_wait" /\ pc'[p] # "alias_wait" /\ cache' # cache) =>
              cache' = [cache EXCEPT ![Earliest(StrippedMatches(cache, req[p].qn))].aliases
                                        = Append(@, req[p].qn)]]_vars

\* Reached: a fuzzy hit has appended its text to the first of two records
\* that both matched the stripped query.
C22_Witness ==
    \E p \in Queriers :
        /\ pc[p] = "alias_save"
        /\ ~req[p].mp
        /\ Len(cache) >= 2
        /\ req[p].qn \in AliasSet(cache[1])
        /\ strip_punctuation(cache[2].q_norm) = strip_punctuation(req[p].qn)

\* The store that _load_cache assigns when it loads the active variant file
\* right after _save_cache has written store c to it.
SavedThenLoaded(c) ==
    LoadResult(SaveCache(files, active_cache_path, c)[active_cache_path])

\* C23: for every reachable in-memory store that holds at least one record,
\* saving it to the active variant file and then loading that file gives
\* the same store: the same records in the same order, field by field.
C23_SaveLoadRoundTrip ==
    cache # <<>> => SavedThenLoaded(cache) = [keep |-> FALSE, items |-> cache]

\* The same for the stores in which every record has a non-empty primary
\* fingerprint.
C23_RoundTripNonEmptyKeys ==
    (cache # <<>> /\ <<>> \notin Keys(cache)) =>
        SavedThenLoaded(cache) = [keep |-> FALSE, items |-> cache]

\* The record of store c that a query with normalized text qn resolves to
\* under policy mp (lines 344-374): the record keyed qn, else under policy
\* false the first record the stripped text matches; 0 when there is none.
Resolve(c, mp, qn) ==
    IF qn \in Keys(c) THEN KeyIndex(c, qn)
    ELSE IF mp THEN 0
    ELSE FindFuzzy(c, strip_punctuation(qn))

\* C24: when a request has just returned an answer other than the fallback
\* and no request is in flight any more, the record its text resolves to in
\* the store holds the answer that was returned.  Stated for texts with a
\* non-empty normalized form.
C24_ReturnedIsStored ==
    (/\ \A p \in Queriers : pc[p] = "idle"
     /\ ret.p \in Queriers
     /\ ret.speech # FallbackSpeech
     /\ normalize(ret.q) # <<>>) =>
        LET i == Resolve(cache, config.match_punctuation, normalize(ret.q))
        IN i # 0 /\ cache[i].a = ret.speech

\* The step that completes a policy change: the reload of line 122 ends
\* and the lock block of lines 112-123 is left.
PolicyChangeEnds(u) == LoadAssignStep(u) /\ LockOwner(io_lock) = {u}

\* Both variant files of the current base decode (a missing file decodes
\* to the empty store).
VariantsDecodable ==
    \A m \in BOOLEAN : read_json_tolerant(files[cache_filename_for(base_cache_path, m)]).ok

\* C25: when a policy change completes with both variant files decodable,
\* every primary fingerprint of the in-memory store before the change is a
\* primary fingerprint of the in-memory store after it, so that an exact
\* query for it is a hit.
C25_ToggleLosesNoEntries ==
    [][\A u \in Updaters :
          (PolicyChangeEnds(u) /\ VariantsDecodable) =>
              \A k \in Keys(cache) : ExactHit(cache', k)]_vars

====
